---- MODULE Spec2Model ----
(***************************************************************************)
(* Model of src/main.py: the Mixnet class (node registry, send_message,    *)
(* _process_message) and the /mix HTTP handler.  The sphinxmix primitives  *)
(* the code calls (rand_subset, Nenc, create_forward_message,              *)
(* sphinx_process, PFdecode, receive_forward) are modelled by what they    *)
(* do to a packet: a header is the sequence of layers still to be peeled,  *)
(* each layer sealed to one public key and carrying one packed routing     *)
(* instruction; the payload is wrapped once per layer.                     *)
(***************************************************************************)
EXTENDS Integers, Sequences, FiniteSets, TLC

\* ------------------------------------------------------------------ bounds
\* largest num_nodes a direct caller passes to Mixnet(num_nodes)
MaxNodes == 5
\* longest message (in characters) a caller sends
MaxMsgLen == 1
\* payload capacity of the packet body in bytes (destination + message)
MaxPayload == 3
\* longest nodelist a direct caller of _process_message builds a packet for
MaxLayers == 3
\* largest registry on which _process_message is called directly
MaxDirectNodes == 2
\* longest route a direct caller of _process_message passes
MaxDirectRoute == 1
\* cap of the peel counter: a loop that reaches it stays in AwaitingHop
MaxPeels == 8
MaxConcNodes == 2

\* ------------------------------------------------------- program constants
\* def __init__(self, num_nodes=10)
DefaultNumNodes == 10
\* rand_subset(self.pkiPub.keys(), 5)
PathLength == 5
\* modulus and generator of the group standing for params.group
GroupP == 23
GroupG == 5
\* sphinxmix routing flags and the msgpack fixarray marker
Relay_flag == 240
Dest_flag == 241
Surb_flag == 242
FixArray == 144

\* ----------------------------------------------------------- python values
NoneVal == [t |-> "None"]
Str(s) == [t |-> "str", v |-> s]
\* the x field of a public pki_entry (None)
NoKey == 0

\* characters: 'h', 'e-acute' (two bytes in UTF-8), a lone surrogate
Chars == {104, 233, 55296}

RECURSIVE SeqsUpTo(_, _)
SeqsUpTo(S, n) ==
    IF n = 0 THEN {<<>>}
    ELSE LET shorter == SeqsUpTo(S, n - 1)
         IN  shorter \cup {Append(s, c) : s \in {t \in shorter : Len(t) = n - 1}, c \in S}

\* destination = "destination_node"
DestinationNode == <<100, 110>>

\* what a caller may pass as message: a string, or None (field missing)
Messages == {Str(s) : s \in SeqsUpTo(Chars, MaxMsgLen)} \cup {NoneVal}
\* what a direct caller may pass as dest
Destinations == {Str(<<>>), Str(<<100>>), Str(DestinationNode)}

\* --------------------------------------------------------- str.encode/decode
IsSurrogate(c) == c >= 55296 /\ c <= 57343

CanEncode(v) == v.t = "str" /\ \A i \in 1..Len(v.v) : ~IsSurrogate(v.v[i])

EncodeChar(c) == IF c < 128 THEN <<c>> ELSE <<192 + (c \div 64), 128 + (c % 64)>>

RECURSIVE EncodeSeq(_)
EncodeSeq(s) == IF s = <<>> THEN <<>> ELSE EncodeChar(Head(s)) \o EncodeSeq(Tail(s))

\* message.encode() / dest.encode()
Encode(v) == EncodeSeq(v.v)

RECURSIVE DecodeSeq(_)
DecodeSeq(b) ==
    IF b = <<>> THEN <<>>
    ELSE IF Head(b) < 128 THEN <<Head(b)>> \o DecodeSeq(Tail(b))
    ELSE <<(Head(b) - 192) * 64 + (b[2] - 128)>> \o DecodeSeq(Tail(Tail(b)))

RECURSIVE CanDecode(_)
\* bytes.decode() raises UnicodeDecodeError on a lead byte without its
\* continuation byte and on a stray continuation byte
CanDecode(b) ==
    IF b = <<>> THEN TRUE
    ELSE IF Head(b) < 128 THEN CanDecode(Tail(b))
    ELSE /\ Head(b) >= 192 /\ Head(b) < 224
         /\ Len(b) >= 2 /\ b[2] >= 128 /\ b[2] < 192
         /\ CanDecode(Tail(Tail(b)))

\* received_message.decode()
Decode(b) == Str(DecodeSeq(b))

\* ------------------------------------------------------------------- group
RECURSIVE Expon(_, _)
\* params.group.expon(base, [e])
Expon(base, e) == IF e = 0 THEN 1 ELSE (base * Expon(base, e - 1)) % GroupP

\* params.group.gensecret() for the i-th node generated: a fresh scalar
GenSecret(i) == ((7 * i + 2) % (GroupP - 1)) + 1

pki_entry(id, x, y) == [id |-> id, x |-> x, y |-> y]

\* --------------------------------------------------------------- sphinxmix
Min(a, b) == IF a < b THEN a ELSE b

\* rand_subset drawing with replacement
rand_subset_repl(lst, nu) ==
    LET k == Min(nu, Cardinality(lst))
    IN  [1..k -> lst]

\* rand_subset(lst, nu): the possible results, the first nu elements of a
\* random order of lst (all of lst when it has fewer than nu elements)
rand_subset(lst, nu) ==
    LET k == Min(nu, Cardinality(lst))
    IN  {s \in [1..k -> lst] : \A i, j \in 1..k : i # j => s[i] # s[j]}

Route_pack(t) == <<FixArray + Len(t)>> \o t

\* Nenc(idx) = Route_pack((Relay_flag, idx))
Nenc(idx) == Route_pack(<<Relay_flag, idx>>)

\* PFdecode(params, packed) = Route_unpack(packed)
PFdecode(packed) == SubSeq(packed, 2, 1 + (Head(packed) - FixArray))

\* unpacking that takes the length byte for the first byte of the label
UnpackDestOff(body) == SubSeq(body, 1, Head(body))
\* unpacking that starts the message one byte late
UnpackMsgOff(body) == SubSeq(body, 3 + Head(body), Len(body))

PackBody(destb, msgb) == <<Len(destb)>> \o destb \o msgb
\* the (dest, msg) pair receive_forward decodes from the body
UnpackDest(body) == SubSeq(body, 2, 1 + Head(body))
UnpackMsg(body) == SubSeq(body, 2 + Head(body), Len(body))

\* create_forward_message raises: empty nodelist, empty destination, or a
\* body that does not fit
CanConstruct(nodelist, keys, destb, msgb) ==
    /\ Len(nodelist) > 0
    /\ Len(destb) > 0
    /\ Len(destb) + Len(msgb) <= MaxPayload

\* header of create_forward_message: layer i is sealed to keys[i] and tells
\* its node the routing entry of node i+1; the last layer says Dest
MakeHeader(nodelist, keys) ==
    [i \in 1..Len(keys) |->
        [pk |-> keys[i],
         info |-> IF i < Len(keys) THEN nodelist[i + 1] ELSE Route_pack(<<Dest_flag>>)]]

\* payload of create_forward_message: the body, MACed under the last hop's
\* secret and wrapped once per hop
MakeDelta(keys, destb, msgb) ==
    [wrap |-> keys, mac |-> keys[Len(keys)], body |-> PackBody(destb, msgb)]

NoDelta == [wrap |-> <<>>, mac |-> 0, body |-> <<>>]

\* sphinx_process raises (MAC mismatch) unless the header has a layer left
\* and it is sealed to the public key of x
CanPeel(x, header) == header # <<>> /\ Head(header).pk = Expon(GroupG, x)

\* sphinx_process: info, the next (header, delta), mac_key
PeelInfo(header) == Head(header).info
\* a peel that hands back the header it was given
PeelHeaderKeep(header) == header
PeelHeader(header) == Tail(header)
\* the payload loses the wrap of this layer; unwrapped with a key it was not
\* wrapped under it is garbage whose MAC never verifies
PeelDelta(header, delta) ==
    IF delta.wrap # <<>> /\ Head(delta.wrap) = Head(header).pk
    THEN [delta EXCEPT !.wrap = Tail(delta.wrap)]
    ELSE [delta EXCEPT !.mac = 0]
PeelMacKey(header) == Head(header).pk

\* receive_forward raises (Modified Body) unless the payload is fully
\* unwrapped and its MAC verifies under mac_key
CanOpen(mac_key, delta) == delta.wrap = <<>> /\ delta.mac = mac_key

\* ------------------------------------------------------------------- state
VARIABLES
    mix,        \* the Mixnet object: "none", "initializing", "ready", "failed"
    num_nodes,  \* argument of Mixnet(num_nodes)
    pkiPriv,    \* self.pkiPriv
    pkiPub,     \* self.pkiPub
    caller,     \* who drives the object: "none", "api", "http"
    message,    \* argument of send_message
    dest,       \* argument of send_message
    entry,      \* method the caller entered: "none", "send_message", "_process_message"
    pc,         \* the session: "idle", "AwaitingHop", "Delivered", "Failed"
    use_nodes,  \* the route
    x,          \* private key the next sphinx_process is called with
    header,     \* current packet header
    delta,      \* current packet payload
    routing,    \* result of the last PFdecode
    recovered,  \* (dest, received_message) of receive_forward, decoded
    ret,        \* value returned by send_message / _process_message
    err,        \* exception raised to the caller
    http,       \* the /mix handler: "none", "running", "except", "responded", "unhandled"
    response,   \* the JSONResponse the handler returned
    nConstruct, \* calls of create_forward_message in this session
    nPeel,      \* calls of sphinx_process in this session
    nOpen,      \* calls of receive_forward in this session
    privReads,  \* node ids whose private key (.x) has been read
    peer        \* the frame of a second send_message call on the same object

vars == <<mix, num_nodes, pkiPriv, pkiPub, caller, message, dest, entry, pc, use_nodes, x,
          header, delta, routing, recovered, ret, err, http, response,
          nConstruct, nPeel, nOpen, privReads, peer>>

registryVars == <<mix, num_nodes, pkiPriv, pkiPub>>
sessionVars == <<message, dest, entry, pc, use_nodes, x, header, delta, routing, recovered, ret,
                 nConstruct, nPeel, nOpen, privReads>>
httpVars == <<http, response>>

\* the local variables of a send_message / _process_message call
NoSession ==
    [pc |-> "idle", message |-> NoneVal, dest |-> NoneVal, use_nodes |-> <<>>, x |-> NoKey,
     header |-> <<>>, delta |-> NoDelta, routing |-> <<>>,
     ret |-> NoneVal, err |-> NoneVal, nPeel |-> 0]

NoErr == NoneVal
NoResponse == [status |-> 0, body |-> NoneVal]

\* raise Exception(f"<prefix>: {e}") inside an except clause
Wrap(type, prefix, e) == [t |-> "exc", type |-> type, text |-> <<prefix>> \o e.text]
Raised(type, text) == [t |-> "exc", type |-> type, text |-> <<text>>]

Init ==
    /\ mix = "none"
    /\ num_nodes = 0
    /\ pkiPriv = <<>>
    /\ pkiPub = <<>>
    /\ caller = "none"
    /\ message = NoneVal
    /\ dest = NoneVal
    /\ entry = "none"
    /\ pc = "idle"
    /\ use_nodes = <<>>
    /\ x = NoKey
    /\ header = <<>>
    /\ delta = NoDelta
    /\ routing = <<>>
    /\ recovered = <<>>
    /\ ret = NoneVal
    /\ err = NoErr
    /\ http = "none"
    /\ response = NoResponse
    /\ nConstruct = 0
    /\ nPeel = 0
    /\ nOpen = 0
    /\ privReads = {}
    /\ peer = NoSession

\* ------------------------------------------------------------ Mixnet.__init__
\* a direct caller evaluates Mixnet(n)
NewMixnet(n) ==
    /\ mix = "none" /\ caller = "none"
    /\ caller' = "api"
    /\ mix' = "initializing"
    /\ num_nodes' = n
    /\ pkiPriv' = <<>>
    /\ pkiPub' = <<>>
    /\ UNCHANGED <<sessionVars, err, httpVars, peer>>

\* a public entry that carries the secret key
PubEntryLeaky(nid, secret_key, public_key) == pki_entry(nid, secret_key, public_key)
\* a public entry whose key is not the one stored with the secret
PubEntryOther(nid, secret_key, public_key) == pki_entry(nid, NoKey, Expon(public_key, 2))

\* self.pkiPub[nid] = pki_entry(nid, None, public_key)
PubEntry(nid, secret_key, public_key) == pki_entry(nid, NoKey, public_key)

\* an iteration of the loop of _initialize_nodes up to
\* self.pkiPriv[nid] = pki_entry(nid, secret_key, public_key)
GenNode ==
    /\ mix = "initializing"
    /\ DOMAIN pkiPriv = DOMAIN pkiPub
    /\ Cardinality(DOMAIN pkiPub) < num_nodes
    /\ LET nid == Cardinality(DOMAIN pkiPub)
           secret_key == GenSecret(nid)
           public_key == Expon(GroupG, secret_key)
       IN  pkiPriv' = pkiPriv @@ (nid :> pki_entry(nid, secret_key, public_key))
    /\ UNCHANGED <<mix, num_nodes, pkiPub, caller, sessionVars, err, httpVars, peer>>

\* the rest of the iteration: self.pkiPub[nid] = pki_entry(nid, None, public_key)
GenPub ==
    /\ mix = "initializing"
    /\ DOMAIN pkiPriv # DOMAIN pkiPub
    /\ LET nid == Cardinality(DOMAIN pkiPub)
       IN  pkiPub' = pkiPub @@ (nid :> PubEntry(nid, pkiPriv[nid].x, pkiPriv[nid].y))
    /\ UNCHANGED <<mix, num_nodes, pkiPriv, caller, sessionVars, err, httpVars, peer>>

\* the group operation of an iteration raises: _initialize_nodes and __init__
\* re-raise, the constructor does not return
GenNodeFails ==
    /\ mix = "initializing"
    /\ DOMAIN pkiPriv = DOMAIN pkiPub
    /\ Cardinality(DOMAIN pkiPub) < num_nodes
    /\ mix' = "failed"
    /\ err' = Wrap("RuntimeError", "Error initializing Mixnet",
                   Wrap("Exception", "Error initializing nodes", Raised("Exception", "group error")))
    /\ http' = IF caller = "http" THEN "except" ELSE http
    /\ UNCHANGED <<num_nodes, pkiPriv, pkiPub, caller, sessionVars, response, peer>>

\* the loop is over: __init__ returns the object
InitDone ==
    /\ mix = "initializing"
    /\ Cardinality(DOMAIN pkiPub) = num_nodes
    /\ mix' = "ready"
    /\ UNCHANGED <<num_nodes, pkiPriv, pkiPub, caller, sessionVars, err, httpVars, peer>>

\* a constructor that returns the object although its except clause ran
MixnetReturnedPartial == mix \in {"ready", "failed"}

\* the caller holds the object: Mixnet(...) returned it
MixnetReturned == mix = "ready"

\* ------------------------------------------------------- Mixnet.send_message
\* send_message without its try/except: the inner exception escapes as it is
SendErrorBare(e) == e

\* except Exception as e: raise Exception(f"Error sending message: {e}")
SendError(e) == Wrap("Exception", "Error sending message", e)
\* except Exception as e: raise Exception(f"Error processing message: {e}")
ProcessError(e) == Wrap("Exception", "Error processing message", e)
\* the exception the caller of the entered method sees
Surface(via, e) == IF via = "send_message" THEN SendError(ProcessError(e)) ELSE ProcessError(e)

\* self.pkiPriv[k] for a k that is not a key: str(KeyError(k)) is repr(k)
KeyError(k) == Raised("KeyError", ToString(k))

\* an exception leaves the method: the packet and the key of its frame are gone
Fail(e) ==
    /\ pc' = "Failed"
    /\ err' = e
    /\ x' = NoKey
    /\ header' = <<>>
    /\ delta' = NoDelta
    /\ UNCHANGED <<recovered, ret>>

\* x = self.pkiPriv[use_nodes[0]].x, the first statement of _process_message
EnterProcess(via, h, d, nodes) ==
    IF nodes = <<>> THEN
        /\ Fail(Surface(via, Raised("IndexError", "list index out of range")))
        /\ use_nodes' = nodes
        /\ UNCHANGED <<routing, nPeel, nOpen, privReads>>
    ELSE IF nodes[1] \notin DOMAIN pkiPriv THEN
        /\ Fail(Surface(via, KeyError(nodes[1])))
        /\ use_nodes' = nodes
        /\ UNCHANGED <<routing, nPeel, nOpen, privReads>>
    ELSE
        /\ pc' = "AwaitingHop"
        /\ use_nodes' = nodes
        /\ x' = pkiPriv[nodes[1]].x
        /\ privReads' = privReads \cup {nodes[1]}
        /\ header' = h
        /\ delta' = d
        /\ UNCHANGED <<routing, recovered, ret, err, nPeel, nOpen>>

\* the body of send_message up to the first hop
SendBody(m, d) ==
    /\ MixnetReturned /\ pc = "idle"
    /\ message' = m
    /\ dest' = d
    /\ entry' = "send_message"
    /\ \E route \in rand_subset(DOMAIN pkiPub, PathLength) :
         LET nodes_routing == [i \in 1..Len(route) |-> Nenc(route[i])]
             keys_nodes == [i \in 1..Len(route) |-> pkiPub[route[i]].y]
         IN  IF ~CanEncode(d) \/ ~CanEncode(m) THEN
                 /\ Fail(SendError(Raised("Exception", "encode")))
                 /\ UNCHANGED <<use_nodes, routing, nConstruct, nPeel, nOpen, privReads>>
             ELSE IF ~CanConstruct(nodes_routing, keys_nodes, Encode(d), Encode(m)) THEN
                 /\ Fail(SendError(Raised("Exception", "create_forward_message")))
                 /\ nConstruct' = nConstruct + 1
                 /\ UNCHANGED <<use_nodes, routing, nPeel, nOpen, privReads>>
             ELSE
                 /\ nConstruct' = nConstruct + 1
                 /\ EnterProcess("send_message", MakeHeader(nodes_routing, keys_nodes),
                                 MakeDelta(keys_nodes, Encode(d), Encode(m)), route)

\* a direct caller evaluates mixnet.send_message(m, d)
SendMessage(m, d) ==
    /\ caller = "api"
    /\ SendBody(m, d)
    /\ UNCHANGED <<registryVars, caller, httpVars, peer>>

\* ---------------------------------------------------- Mixnet._process_message
\* packets a direct caller of _process_message can hold: the output of
\* create_forward_message for any nodelist, each entry a relay to a registered
\* id or to the unregistered id num_nodes, or another routing flag
DirectIds == 0..num_nodes
DirectMeta == {Nenc(a) : a \in DirectIds} \cup {Route_pack(<<Surb_flag>>)}
DirectRoutes == UNION {rand_subset(DirectIds, k) : k \in 0..MaxDirectRoute}
DirectBody == <<Encode(Str(<<100>>)), Encode(Str(<<104>>))>>

\* a direct caller evaluates mixnet._process_message(header, delta, nodes)
ProcessMessage ==
    /\ caller = "api"
    /\ MixnetReturned /\ pc = "idle"
    /\ num_nodes <= MaxDirectNodes
    /\ entry' = "_process_message"
    /\ \E len \in 1..MaxLayers :
         \E hops \in [1..len -> DOMAIN pkiPub], meta \in [2..len -> DirectMeta],
            nodes \in DirectRoutes :
              LET nodelist == [i \in 1..len |-> IF i = 1 THEN Nenc(hops[1]) ELSE meta[i]]
                  keys == [i \in 1..len |-> pkiPub[hops[i]].y]
              IN  EnterProcess("_process_message", MakeHeader(nodelist, keys),
                               MakeDelta(keys, DirectBody[1], DirectBody[2]), nodes)
    /\ UNCHANGED <<registryVars, caller, message, dest, nConstruct, httpVars, peer>>

\* a relay that keeps peeling the packet it was given instead of the peeled one
RelayStale(addr, h, d) ==
    IF addr \in DOMAIN pkiPriv THEN
        /\ x' = pkiPriv[addr].x
        /\ privReads' = privReads \cup {addr}
        /\ UNCHANGED <<header, delta, pc, use_nodes, recovered, ret, err, nOpen>>
    ELSE
        /\ Fail(Surface(entry, KeyError(addr)))
        /\ UNCHANGED <<use_nodes, privReads, nOpen>>

\* a relay that keeps the current key when the next id is not registered
RelayUnchecked(addr, h, d) ==
    /\ x' = IF addr \in DOMAIN pkiPriv THEN pkiPriv[addr].x ELSE x
    /\ privReads' = privReads \cup ({addr} \cap DOMAIN pkiPriv)
    /\ header' = h
    /\ delta' = d
    /\ UNCHANGED <<pc, use_nodes, recovered, ret, err, nOpen>>

\* a relay branch that also calls receive_forward
RelayOpening(addr, h, d) ==
    /\ x' = IF addr \in DOMAIN pkiPriv THEN pkiPriv[addr].x ELSE NoKey
    /\ privReads' = privReads \cup ({addr} \cap DOMAIN pkiPriv)
    /\ nOpen' = nOpen + 1
    /\ header' = h
    /\ delta' = d
    /\ pc' = IF addr \in DOMAIN pkiPriv THEN pc ELSE "Failed"
    /\ err' = IF addr \in DOMAIN pkiPriv THEN err ELSE Surface(entry, KeyError(addr))
    /\ UNCHANGED <<use_nodes, recovered, ret>>

\* a relay that takes the key of the route's first node again
RelayFirst(addr, h, d) ==
    /\ x' = pkiPriv[use_nodes[1]].x
    /\ privReads' = privReads \cup {use_nodes[1]}
    /\ header' = h
    /\ delta' = d
    /\ UNCHANGED <<pc, use_nodes, recovered, ret, err, nOpen>>

\* after a Relay instruction: x = self.pkiPriv[addr].x
Relay(addr, h, d) ==
    IF addr \in DOMAIN pkiPriv THEN
        /\ x' = pkiPriv[addr].x
        /\ privReads' = privReads \cup {addr}
        /\ header' = h
        /\ delta' = d
        /\ UNCHANGED <<pc, use_nodes, recovered, ret, err, nOpen>>
    ELSE
        /\ Fail(Surface(entry, KeyError(addr)))
        /\ UNCHANGED <<use_nodes, privReads, nOpen>>

\* after a Dest instruction: receive_forward, then return the decoded message
Deliver(mac_key, d) ==
    /\ nOpen' = nOpen + 1
    /\ IF ~CanOpen(mac_key, d) THEN
           /\ Fail(Surface(entry, Raised("SphinxException", "Modified Body")))
           /\ UNCHANGED <<use_nodes, privReads>>
       ELSE IF ~CanDecode(UnpackDest(d.body)) \/ ~CanDecode(UnpackMsg(d.body)) THEN
           /\ Fail(Surface(entry, Raised("UnicodeDecodeError", "invalid start byte")))
           /\ UNCHANGED <<use_nodes, privReads>>
       ELSE
           /\ pc' = "Delivered"
           /\ recovered' = <<Decode(UnpackDest(d.body)), Decode(UnpackMsg(d.body))>>
           /\ ret' = Decode(UnpackMsg(d.body))
           /\ header' = <<>>
           /\ delta' = d
           /\ UNCHANGED <<use_nodes, x, err, privReads>>

\* a lookup that takes the entry out of the table (pop instead of [])
KeyLookupsPop(table, ids) == [i \in DOMAIN table \ ids |-> table[i]]

\* self.pkiPriv after the lookups self.pkiPriv[k] for k in ids
KeyLookups(table, ids) == table

\* a loop that is entered again after a failure
HopEnabledRetry == pc \in {"AwaitingHop", "Failed"}

\* the relay loop runs: control is inside the while True of _process_message
HopEnabled == pc = "AwaitingHop"

\* one iteration of the while loop of _process_message
Hop ==
    /\ HopEnabled
    /\ nPeel < MaxPeels
    /\ nPeel' = nPeel + 1
    /\ IF ~CanPeel(x, header) THEN
           /\ Fail(Surface(entry, Raised("SphinxException", "MAC mismatch")))
           /\ UNCHANGED <<use_nodes, routing, nOpen, privReads>>
       ELSE
           LET info == PeelInfo(header)
               h == PeelHeader(header)
               d == PeelDelta(header, delta)
               mac_key == PeelMacKey(header)
               r == PFdecode(info)
           IN  /\ routing' = r
               /\ IF r[1] = Relay_flag THEN Relay(r[2], h, d)
                  ELSE IF r[1] = Dest_flag THEN Deliver(mac_key, d)
                  ELSE /\ header' = h
                       /\ delta' = d
                       /\ UNCHANGED <<pc, use_nodes, x, recovered, ret, err, nOpen, privReads>>
    /\ pkiPriv' = KeyLookups(pkiPriv, privReads' \ privReads)
    /\ UNCHANGED <<mix, num_nodes, pkiPub, caller, message, dest, entry, nConstruct, httpVars, peer>>

\* ------------------------------------------------------ mix_incoming_messages
\* the failure indicator "Failed to mix message!"
FailedToMix == Str(<<70, 33>>)

\* request bodies: not JSON, or a JSON object with or without a message field
HttpBodies == {[t |-> "badjson"]} \cup Messages

\* json.dumps of JSONResponse.render raises TypeError unless the content is
\* serializable
JsonRenders(v) == v.t \in {"str", "None"}

\* data = await request.json(); message = data.get('message'); mixnet = Mixnet()
HttpRequest(b) ==
    /\ caller = "none" /\ http = "none"
    /\ caller' = "http"
    /\ IF b.t = "badjson" THEN
           /\ http' = "except"
           /\ err' = Raised("JSONDecodeError", "Expecting value")
           /\ UNCHANGED <<registryVars, message>>
       ELSE
           /\ http' = "running"
           /\ message' = b
           /\ mix' = "initializing"
           /\ num_nodes' = DefaultNumNodes
           /\ pkiPriv' = <<>>
           /\ pkiPub' = <<>>
           /\ UNCHANGED err
    /\ UNCHANGED <<dest, entry, pc, use_nodes, x, header, delta, routing, recovered, ret,
                   nConstruct, nPeel, nOpen, privReads, response, peer>>

\* received_message = await mixnet.send_message(message, destination)
HttpSend ==
    /\ http = "running"
    /\ SendBody(message, Str(DestinationNode))
    /\ UNCHANGED <<registryVars, caller, httpVars, peer>>

\* return JSONResponse({"data": content}, status_code=200)
JSONResponse(content) ==
    IF JsonRenders(content) THEN
        /\ http' = "responded"
        /\ response' = [status |-> 200, body |-> content]
    ELSE
        /\ http' = "unhandled"
        /\ response' = NoResponse

\* the if/else on received_message, and the except clause of the handler
HttpRespond ==
    /\ \/ http = "except"
       \/ http = "running" /\ pc \in {"Delivered", "Failed"}
    /\ IF http = "running" /\ pc = "Delivered" THEN
           IF ret.v # <<>> THEN JSONResponse(ret) ELSE JSONResponse(FailedToMix)
       ELSE JSONResponse(err)
    /\ UNCHANGED <<registryVars, caller, sessionVars, err, peer>>

\* ------------------------------------------------------- concurrent sessions
\* Two send_message calls on one Mixnet object. Each call has its own frame:
\* use_nodes, header, delta, x, routing are local variables (lines 75-93 and
\* 113-129); self.pkiPub and self.pkiPriv are the only attributes they touch.
\* The frame of the first call is the session variables, the frame of the
\* second is the record peer.

\* the frame of the first call as a record
Session ==
    [pc |-> pc, message |-> message, dest |-> dest, use_nodes |-> use_nodes, x |-> x,
     header |-> header, delta |-> delta, routing |-> routing, ret |-> ret, err |-> err,
     nPeel |-> nPeel]

\* an exception leaves the call whose frame is s
FailRec(s, e) ==
    [s EXCEPT !.pc = "Failed", !.err = e, !.x = NoKey, !.header = <<>>, !.delta = NoDelta]

\* send_message(m, d) with route the result of rand_subset, up to the first hop
SendRec(route, m, d) ==
    LET s == [NoSession EXCEPT !.message = m, !.dest = d]
        nodes_routing == [i \in 1..Len(route) |-> Nenc(route[i])]
        keys_nodes == [i \in 1..Len(route) |-> pkiPub[route[i]].y]
    IN  IF ~CanEncode(d) \/ ~CanEncode(m) THEN
            FailRec(s, SendError(Raised("Exception", "encode")))
        ELSE IF ~CanConstruct(nodes_routing, keys_nodes, Encode(d), Encode(m)) THEN
            FailRec(s, SendError(Raised("Exception", "create_forward_message")))
        ELSE
            [s EXCEPT !.pc = "AwaitingHop",
                      !.use_nodes = route,
                      !.x = pkiPriv[route[1]].x,
                      !.header = MakeHeader(nodes_routing, keys_nodes),
                      !.delta = MakeDelta(keys_nodes, Encode(d), Encode(m))]

\* one iteration of the while loop of _process_message in the frame s
HopRec(s) ==
    LET s1 == [s EXCEPT !.nPeel = @ + 1]
    IN  IF ~CanPeel(s.x, s.header) THEN
            FailRec(s1, Surface("send_message", Raised("SphinxException", "MAC mismatch")))
        ELSE
            LET h == PeelHeader(s.header)
                d == PeelDelta(s.header, s.delta)
                mac_key == PeelMacKey(s.header)
                r == PFdecode(PeelInfo(s.header))
                s2 == [s1 EXCEPT !.routing = r]
            IN  IF r[1] = Relay_flag THEN
                    IF r[2] \in DOMAIN pkiPriv
                    THEN [s2 EXCEPT !.x = pkiPriv[r[2]].x, !.header = h, !.delta = d]
                    ELSE FailRec(s2, Surface("send_message", KeyError(r[2])))
                ELSE IF r[1] = Dest_flag THEN
                    IF ~CanOpen(mac_key, d) THEN
                        FailRec(s2, Surface("send_message", Raised("SphinxException", "Modified Body")))
                    ELSE IF ~CanDecode(UnpackDest(d.body)) \/ ~CanDecode(UnpackMsg(d.body)) THEN
                        FailRec(s2, Surface("send_message", Raised("UnicodeDecodeError", "invalid start byte")))
                    ELSE
                        [s2 EXCEPT !.pc = "Delivered", !.ret = Decode(UnpackMsg(d.body)),
                                   !.header = <<>>, !.delta = d]
                ELSE [s2 EXCEPT !.header = h, !.delta = d]

\* a packet kept in attributes of the object: the second call peels the
\* packet of the first
PeerPacketShared == <<header, delta>>

\* the header and delta the second call peels: the locals of its own frame
PeerPacket == <<peer.header, peer.delta>>

\* a second caller evaluates mixnet.send_message(m, d) on the same object
PeerSend(m, d) ==
    /\ caller = "api"
    /\ MixnetReturned /\ peer.pc = "idle"
    /\ \E route \in rand_subset(DOMAIN pkiPub, PathLength) : peer' = SendRec(route, m, d)
    /\ UNCHANGED <<registryVars, caller, sessionVars, err, httpVars>>

\* one iteration of the loop of the second call
PeerHop ==
    /\ peer.pc = "AwaitingHop"
    /\ peer.nPeel < MaxPeels
    /\ peer' = HopRec([peer EXCEPT !.header = PeerPacket[1], !.delta = PeerPacket[2]])
    /\ UNCHANGED <<registryVars, caller, sessionVars, err, httpVars>>

\* -------------------------------------------------------------- specification
\* a program that uses the Mixnet class directly
NextApi ==
    \/ \E n \in 0..MaxNodes : NewMixnet(n)
    \/ GenNode
    \/ GenPub
    \/ GenNodeFails
    \/ InitDone
    \/ \E m \in Messages, d \in Destinations : SendMessage(m, d)
    \/ ProcessMessage
    \/ Hop

\* the served application: one request to /mix
NextHttp ==
    \/ \E b \in HttpBodies : HttpRequest(b)
    \/ HttpSend
    \/ HttpRespond

Next ==
    \/ NextApi
    \/ NextHttp

Spec == Init /\ [][Next]_vars

\* the scheduler runs a started relay loop: it has no await in it
FairSpec == Init /\ [][NextApi]_vars /\ WF_vars(Hop)

\* two calls of send_message on one object, their steps in any order
NextConc ==
    \/ \E n \in 0..MaxConcNodes : NewMixnet(n)
    \/ GenNode
    \/ GenPub
    \/ InitDone
    \/ \E m \in Messages, d \in Destinations : SendMessage(m, d)
    \/ Hop
    \/ \E m \in Messages, d \in Destinations : PeerSend(m, d)
    \/ PeerHop

SpecConc == Init /\ [][NextConc]_vars

\* ------------------------------------------------------------------ claims
Terminal == pc \in {"Delivered", "Failed"}

\* C1: the relay driver never performs more than L + 1 peel steps
\* (sphinx_process calls) for a route of length L, whatever the packet.
C1_LoopBound == nPeel <= Len(use_nodes) + 1

Sendable(m, d) ==
    /\ CanEncode(m) /\ CanEncode(d)
    /\ Len(Encode(d)) > 0
    /\ Len(Encode(d)) + Len(Encode(m)) <= MaxPayload

\* C3: round trip: with at least PathLength registered nodes and no adapter
\* failure, send_message does not fail and what it returns is exactly m.
C3_RoundTrip ==
    (entry = "send_message" /\ num_nodes >= PathLength /\ Sendable(message, dest))
        => /\ pc # "Failed"
           /\ pc = "Delivered" => ret = message

\* a two-byte character came back from a full-length route
C3_Witness ==
    /\ entry = "send_message" /\ pc = "Delivered" /\ num_nodes >= PathLength
    /\ message = Str(<<233>>) /\ ret = message /\ nPeel = PathLength

\* C4 as claimed: a successful send returns a result that reports the
\* destination label, equal to the d passed to send.
C4_ReportsDest ==
    (entry = "send_message" /\ pc = "Delivered")
        => ("dest" \in DOMAIN ret /\ ret.dest = dest)

\* C4 as amended: a successful send returns only the recovered message, a
\* string; the destination label that receive_forward recovers next to it is
\* exactly d, but it is printed and not part of the returned value.
C4_DestRecoveredNotReturned ==
    (entry = "send_message" /\ pc = "Delivered")
        => /\ recovered[1] = dest
           /\ ret = recovered[2]
           /\ DOMAIN ret = {"t", "v"} /\ ret.t = "str"

\* a delivery whose message differs from its two-byte destination label
C4_Witness ==
    /\ entry = "send_message" /\ pc = "Delivered"
    /\ dest = Str(DestinationNode) /\ recovered[1] = dest /\ ret = Str(<<104>>)

\* C5: a send with fewer registered nodes than the path length fails and
\* never yields a route, in particular none shorter than the path length.
C5_InsufficientNodes ==
    (entry = "send_message" /\ num_nodes < PathLength)
        => (pc = "Failed" /\ use_nodes = <<>>)

\* C6: with at least PathLength registered nodes the route chosen by send has
\* exactly PathLength entries, no id twice, every id a key of the registry.
C6_Route ==
    (entry = "send_message" /\ num_nodes >= PathLength /\ pc \in {"AwaitingHop", "Delivered"})
        => /\ Len(use_nodes) = PathLength
           /\ \A i, j \in 1..Len(use_nodes) : i # j => use_nodes[i] # use_nodes[j]
           /\ \A i \in 1..Len(use_nodes) : use_nodes[i] \in DOMAIN pkiPub

\* a route drawn from a registry larger than the path length
C6_Witness ==
    /\ entry = "send_message" /\ pc = "AwaitingHop"
    /\ Cardinality(DOMAIN pkiPub) > PathLength /\ Len(use_nodes) = PathLength

\* the last peel returned Relay(next) with next not registered
RelayUnknown ==
    /\ routing # <<>>
    /\ routing[1] = Relay_flag
    /\ routing[2] \notin DOMAIN pkiPriv

\* the exception an unreachable next node surfaces as
UnreachableErr(addr) == Surface(entry, KeyError(addr))

\* C7 as claimed: a Relay to an unregistered id ends the driver in Failed, no
\* key read for it, no further peel or open, and the failure is
\* distinguishable: no other failure surfaces as the same error.
C7_Distinguishable ==
    /\ RelayUnknown => (pc = "Failed" /\ routing[2] \notin privReads /\ nOpen = 0)
    /\ (pc = "Failed" /\ ~RelayUnknown)
           => \A a \in 0..DefaultNumNodes : err # UnreachableErr(a)

\* C7 as amended: a Relay to an unregistered id ends the driver in Failed
\* with the generic Exception every failure is raised as (its text wraps the
\* KeyError of the lookup); no private key is read for that id and no
\* further peel or open is performed.
C7_UnreachableFails ==
    /\ [](RelayUnknown =>
            /\ pc = "Failed"
            /\ err = UnreachableErr(routing[2])
            /\ err.type = "Exception"
            /\ routing[2] \notin privReads
            /\ nOpen = 0)
    /\ [][RelayUnknown => UNCHANGED <<pc, nPeel, nOpen, privReads, x>>]_vars

\* the second peel of a run relayed to an unregistered id
C7_Witness == RelayUnknown /\ pc = "Failed" /\ nPeel >= 2

\* C8: no retry inside a session: once an adapter operation has failed the
\* session is Failed for good, no construct, peel or open follows, and the
\* failure is what the caller of the entered method gets.
C8_NoRetry ==
    /\ [](pc = "Failed" => (err.t = "exc" /\ ret = NoneVal /\ nConstruct <= 1))
    /\ [][pc = "Failed" =>
            /\ pc' = "Failed"
            /\ UNCHANGED <<nConstruct, nPeel, nOpen, err, ret>>]_vars

\* a peel failed after an earlier peel succeeded
C8_Witness == pc = "Failed" /\ nPeel >= 2 /\ err = Surface(entry, Raised("SphinxException", "MAC mismatch"))

\* C9 as claimed: a failure during a send is returned as a failure value and
\* send never raises an exception to its caller.
C9_NeverRaises ==
    (entry = "send_message" /\ pc = "Failed") => (err = NoErr /\ ret # NoneVal)

\* C9 as amended: every failure during a send is caught in send_message and
\* raised to its caller as a generic Exception whose text starts with
\* "Error sending message"; send returns no failure value.
C9_RaisesWrapped ==
    (entry = "send_message" /\ pc = "Failed")
        => /\ err.t = "exc" /\ err.type = "Exception"
           /\ err.text[1] = "Error sending message"
           /\ ret = NoneVal

\* packet construction failed inside a send
C9_Witness == entry = "send_message" /\ pc = "Failed" /\ nConstruct = 1

\* C10: the /mix endpoint answers every request with HTTP 200 and a JSON
\* body; the handler never ends in an unhandled error.
C10_Always200 ==
    /\ http # "unhandled"
    /\ http = "responded" => response.status = 200


\* C11: private keys are confined. No entry of the public table carries a
\* secret; a private key is read only by the relay driver (on entering
\* _process_message and on a Relay instruction), one read per driver step, and
\* the key it holds is the key of a node it has read; in a send the nodes
\* whose key has been read are the route's nodes up to the current hop, and
\* nothing before the driver starts (route selection, packet construction)
\* reads a private key.
C11_KeyConfinement ==
    /\ \A i \in DOMAIN pkiPub : pkiPub[i].x = NoKey
    /\ privReads \subseteq DOMAIN pkiPriv
    /\ Cardinality(privReads) <= nPeel + 1
    /\ pc = "idle" => privReads = {}
    /\ pc = "AwaitingHop" => \E i \in privReads : x = pkiPriv[i].x
    /\ entry = "send_message" =>
         /\ privReads \subseteq {use_nodes[k] : k \in 1..Min(nPeel + 1, Len(use_nodes))}
         /\ pc = "AwaitingHop" => x = pkiPriv[use_nodes[nPeel + 1]].x
C11_Witness ==
    /\ entry = "send_message" /\ pc = "AwaitingHop"
    /\ num_nodes = MaxNodes /\ nPeel = 2
    /\ privReads = {use_nodes[1], use_nodes[2], use_nodes[3]}

\* C12: registry initialization is all-or-nothing. When key generation fails
\* the constructor raises (RuntimeError, the kind only initialization raises)
\* and no session ever runs on the object; every session that runs has a
\* registry of exactly the ids 0..num_nodes-1 in both tables.
C12_AllOrNothing ==
    /\ mix = "failed" =>
         /\ err # NoErr /\ err.type = "RuntimeError"
         /\ entry = "none" /\ pc = "idle" /\ nConstruct = 0 /\ privReads = {}
    /\ entry # "none" =>
         /\ mix = "ready"
         /\ DOMAIN pkiPub = 0..(num_nodes - 1)
         /\ DOMAIN pkiPriv = 0..(num_nodes - 1)
C12_Witness ==
    /\ mix = "failed"
    /\ Cardinality(DOMAIN pkiPub) = 2
    /\ num_nodes = 4

\* C14: the registry is immutable once the constructor has returned: no step
\* of a session (send, peel, open, construct, failure) changes the ids or any
\* key of either table, and the object holds nothing else a session writes.
C14_RegistryFrozen ==
    [][mix = "ready" => UNCHANGED <<mix, num_nodes, pkiPriv, pkiPub>>]_vars
C14_Witness ==
    /\ mix = "ready" /\ pc = "Failed" /\ nPeel >= 2
    /\ DOMAIN pkiPriv = 0..(num_nodes - 1)


\* C15: whenever the /mix handler has answered a request whose session ended
\* Delivered, the response body is the recovered message, the empty message
\* included, and the failure indicator is answered only for a session that
\* did not end Delivered.
C15_PlaintextReturned ==
    http = "responded" =>
        /\ pc = "Delivered" => response.body = ret
        /\ response.body = FailedToMix => pc # "Delivered"


\* C16: the hops of a send follow the route. The driver starts with the key of
\* route[0]; before the k-th peel it holds the private key of route[k] and the
\* packet's outer layer is sealed to that node; each peel but the last
\* decodes Relay(route[k+1]), the last decodes Dest, and a send that was
\* constructed never fails in the loop, so Delivered comes after exactly
\* Len(route) peels.
C16_HopOrder ==
    entry = "send_message" =>
        /\ pc = "AwaitingHop" =>
             /\ nPeel < Len(use_nodes)
             /\ x = pkiPriv[use_nodes[nPeel + 1]].x
             /\ CanPeel(x, header)
             /\ nPeel >= 1 => routing = <<Relay_flag, use_nodes[nPeel + 1]>>
        /\ pc = "Delivered" =>
             /\ nPeel = Len(use_nodes)
             /\ routing = <<Dest_flag>>
        /\ pc = "Failed" => nPeel = 0
C16_Witness ==
    /\ entry = "send_message" /\ pc = "Delivered"
    /\ Len(use_nodes) = PathLength /\ nPeel = PathLength
    /\ use_nodes[1] > use_nodes[2]


\* the packet create_forward_message built for the session's route and inputs
C17_Keys == [i \in 1..Len(use_nodes) |-> pkiPub[use_nodes[i]].y]
C17_Header == MakeHeader([i \in 1..Len(use_nodes) |-> Nenc(use_nodes[i])], C17_Keys)
C17_Delta == MakeDelta(C17_Keys, Encode(dest), Encode(message))

\* C17: the packet is threaded through the hops of a send. After k peels the
\* packet about to be peeled is the constructed packet with exactly its first
\* k layers removed (so the input of peel k+1 is the output of peel k, peel 0
\* gets the constructed packet, and no packet is peeled twice); receive_forward
\* is called once, with the payload the last peel returned and the mac key of
\* the last layer.
C17_Threaded ==
    entry = "send_message" =>
        /\ pc = "AwaitingHop" =>
             /\ header = SubSeq(C17_Header, nPeel + 1, Len(use_nodes))
             /\ delta = [C17_Delta EXCEPT !.wrap = SubSeq(C17_Keys, nPeel + 1, Len(use_nodes))]
        /\ pc = "Delivered" =>
             /\ nOpen = 1
             /\ delta = [C17_Delta EXCEPT !.wrap = <<>>]
             /\ CanOpen(C17_Header[nPeel].pk, delta)
C17_Witness ==
    /\ entry = "send_message" /\ pc = "Delivered"
    /\ nPeel = 3 /\ message = Str(<<104>>)
    /\ use_nodes[1] < use_nodes[2]


\* C18: every peel makes progress. When the last peel decoded a routing tag
\* that is neither Relay nor Dest the driver has left the loop: it performs no
\* further peel (which would use the same node's key on the new packet).
C18_Progress ==
    [][(/\ pc = "AwaitingHop"
        /\ routing # <<>>
        /\ routing[1] \notin {Relay_flag, Dest_flag}) => nPeel' = nPeel]_vars


\* C19: receive_forward is called only after a peel that decoded Dest, at most
\* once in a session and never while the loop goes on after a Relay; a session
\* is Delivered only through that one call, which ends the loop.
C19_OpenOnlyOnDest ==
    /\ nOpen <= 1
    /\ nOpen = 1 => routing = <<Dest_flag>> /\ pc \in {"Delivered", "Failed"}
    /\ pc = "Delivered" => nOpen = 1 /\ recovered # <<>>
    /\ (routing # <<>> /\ routing[1] = Relay_flag) => nOpen = 0
C19_Witness ==
    /\ pc = "Delivered" /\ nOpen = 1 /\ nPeel = 4
    /\ routing = <<Dest_flag>>

\* C20: the two tables agree. At every moment, initialization included, every
\* id of pkiPub is an id of pkiPriv with the same id and public key; once the
\* constructor has returned both tables have exactly the ids 0..num_nodes-1.
C20_TablesAgree ==
    /\ DOMAIN pkiPub \subseteq DOMAIN pkiPriv
    /\ \A i \in DOMAIN pkiPub : pkiPub[i].id = i /\ pkiPub[i].y = pkiPriv[i].y
    /\ \A i \in DOMAIN pkiPriv : pkiPriv[i].id = i
    /\ mix = "ready" =>
         /\ DOMAIN pkiPub = 0..(num_nodes - 1)
         /\ DOMAIN pkiPriv = 0..(num_nodes - 1)
C20_Witness ==
    /\ mix = "initializing" /\ num_nodes = 3
    /\ DOMAIN pkiPriv = {0, 1} /\ DOMAIN pkiPub = {0}


\* the frame of a call that runs alone, after k iterations of its loop
RECURSIVE C13_Alone(_, _)
C13_Alone(s, k) ==
    IF k = 0 THEN s
    ELSE LET t == C13_Alone(s, k - 1)
         IN  IF t.pc = "AwaitingHop" THEN HopRec(t) ELSE t

\* C13: concurrent sessions are independent. However the steps of two
\* send_message calls on one object interleave, the frame of each call (route,
\* packet, key of the current node, result or error) is what the same call
\* gives when it runs alone with the same route and inputs, and a delivered
\* call returns its own message.
C13_Independent ==
    /\ entry = "send_message" =>
         /\ Session = C13_Alone(SendRec(use_nodes, message, dest), nPeel)
         /\ pc = "Delivered" => ret = message
    /\ peer.pc # "idle" =>
         /\ peer = C13_Alone(SendRec(peer.use_nodes, peer.message, peer.dest), peer.nPeel)
         /\ peer.pc = "Delivered" => peer.ret = peer.message
C13_Witness ==
    /\ pc = "AwaitingHop" /\ nPeel = 1
    /\ peer.pc = "Delivered" /\ peer.nPeel = 2
    /\ use_nodes # peer.use_nodes
    /\ message # peer.message


====
